---- MODULE Spec2Model ----
(***************************************************************************)
(* State-machine model of examples/data-channels/data-channels.rs: the     *)
(* main task (argument parsing, engine set-up, callback wiring, offer /    *)
(* answer negotiation, termination select, close) together with the        *)
(* callbacks it hands to the WebRTC library (peer-connection state, data    *)
(* channel, per-channel open / message) and the per-channel send loop.      *)
(* The library and the operating system are the environment: every         *)
(* fallible library call may return Err, callbacks fire in any order once   *)
(* their handler is installed, and SIGINT may arrive at any time.           *)
(***************************************************************************)
EXTENDS Integers, Sequences, FiniteSets, TLC

\* ---------------------------------------------------------------- bounds
MaxChans == 2       \* data channels the remote peer creates
MaxSdpLen == 2      \* bytes of SDP text in the generated answer
MaxMsgs == 2        \* messages followed on the watched channel

Chans == 1..MaxChans

\* ------------------------------------------------------ program constants
Running == -1       \* the process has not ended
ExitOk == 0         \* main returned Ok(()) / process::exit(0)
ExitErr == 1        \* main returned Err(_), or clap rejected the arguments
ExitPanic == 101    \* a panic unwound out of main (unwrap on Err)
ExitSigint == 130   \* killed by SIGINT under its default disposition

PeerStates == {"New", "Connecting", "Connected", "Disconnected", "Failed", "Closed"}

VARIABLES
  pc,            \* position of the main task
  exitCode,      \* Running, or the exit status of the process
  calls,         \* library calls of the main task, in order: <<name, ok>>
  out,           \* lines the main task printed, in order
  stateHandler,  \* on_peer_connection_state_change handler installed
  dcHandler,     \* on_data_channel handler installed
  missed,        \* a library event fired with no handler installed
  remoteDesc,    \* set_remote_description returned Ok
  localDesc,     \* set_local_description returned Ok
  localRead,     \* result of local_description(): "unread", "some", "none"
  pcState,       \* peer-connection state (library-owned)
  stateOut,      \* lines the state handler printed when it last ran
  lastMsg,       \* channel of the last "Message from DataChannel" line, 0: none
  doneChan,      \* messages queued in the termination channel (capacity 1)
  ctrlcReg,      \* tokio's SIGINT listener is registered (ctrl_c() polled)
  sigPending,    \* a SIGINT was delivered to the registered listener
  branch,        \* branch the termination select took: "none", "done", "interrupt"
  closeCalls,    \* calls of peer_connection.close()
  answerSdp,     \* SDP text of the answer the library generates (bytes)
  b64Line,       \* text of the base64 line printed (bytes); <<>>: none
  wire,          \* ids of the watched channel's messages in transit, oldest first
  sentIds,       \* messages the remote peer has sent on the watched channel
  lastId,        \* id of the message of the last message line, 0: not followed
  ch             \* per data channel: registration, transport and loop state

vars == <<pc, exitCode, calls, out, stateHandler, dcHandler, missed, remoteDesc,
          localDesc, localRead, pcState, stateOut, lastMsg, doneChan, ctrlcReg,
          sigPending, branch, closeCalls, answerSdp, b64Line, wire, sentIds,
          lastId, ch>>

mainVars == <<pc, exitCode, calls, out>>
libVars == <<stateHandler, dcHandler, remoteDesc, localDesc, localRead>>
sigVars == <<ctrlcReg, sigPending>>
termVars == <<doneChan, branch, closeCalls>>
descVars == <<answerSdp, b64Line>>
wireVars == <<wire, sentIds, lastId>>

\* ---------------------------------------------------- main: control flow
\* Faulty orders of main's statements, used to test the ordering properties.
\* The candidate is added before the offer is applied.
OrderIceFirst ==
  <<"parse_args", "register_codecs", "register_interceptors",
    "new_peer_connection", "on_peer_connection_state_change",
    "on_data_channel", "add_ice_candidate", "set_remote_description",
    "create_answer", "set_local_description", "local_description",
    "press", "select", "wait", "close", "return", "end">>

\* The local description is read before the answer is applied.
OrderReadEarly ==
  <<"parse_args", "register_codecs", "register_interceptors",
    "new_peer_connection", "on_peer_connection_state_change",
    "on_data_channel", "set_remote_description", "create_answer",
    "local_description", "set_local_description", "add_ice_candidate",
    "press", "select", "wait", "close", "return", "end">>

\* The data-channel handler is installed after the negotiation.
OrderLateWiring ==
  <<"parse_args", "register_codecs", "register_interceptors",
    "new_peer_connection", "on_peer_connection_state_change",
    "set_remote_description", "create_answer", "set_local_description",
    "add_ice_candidate", "local_description", "press", "on_data_channel",
    "select", "wait", "close", "return", "end">>

\* main returns after the select without closing the peer connection.
OrderNoClose ==
  <<"parse_args", "register_codecs", "register_interceptors",
    "new_peer_connection", "on_peer_connection_state_change",
    "on_data_channel", "set_remote_description", "create_answer",
    "set_local_description", "add_ice_candidate", "local_description",
    "press", "select", "wait", "return", "end">>

\* Statements of main in program order.
Order == <<"parse_args", "register_codecs", "register_interceptors",
           "new_peer_connection", "on_peer_connection_state_change",
           "on_data_channel", "set_remote_description", "create_answer",
           "set_local_description", "add_ice_candidate", "local_description",
           "press", "select", "wait", "close", "return", "end">>

IndexOf(p) == CHOOSE i \in 1..Len(Order) : Order[i] = p

\* The statement that follows statement p when p completes normally.
Succ(p) == Order[IndexOf(p) + 1]

\* A data channel the remote peer has not created yet.
\*   known    the on_data_channel handler was called for the channel
\*   regs     registration statements of the handler's future completed (0..2)
\*   ready    transport state: "connecting", "open", "closed"
\*   opened   the on_open handler was called (the open notice is printed)
\*   loop     send loop: "none", "sleep", "send", "ended"
\*   failed   a send_text on the channel returned Err
\*   panicked the on_message handler panicked on a non-UTF-8 payload
NoChan == [known |-> FALSE, regs |-> 0, ready |-> "connecting", opened |-> FALSE,
           loop |-> "none", failed |-> FALSE, panicked |-> FALSE]

\* Bytes an SDP text is made of here: 'v', '=', CR, LF, '"' and '\'.
SdpBytes == {118, 61, 13, 10, 34, 92}

SdpTexts == UNION {[1..n -> SdpBytes] : n \in 0..MaxSdpLen}

\* The text used where the content of the answer does not matter: CR LF.
SampleSdp == <<13, 10>>

\* State after construction, but for the text of the answer.
InitProgram ==
  /\ pc = "parse_args"
  /\ exitCode = Running
  /\ calls = <<>>
  /\ out = <<>>
  /\ stateHandler = FALSE
  /\ dcHandler = FALSE
  /\ missed = FALSE
  /\ remoteDesc = FALSE
  /\ localDesc = FALSE
  /\ localRead = "unread"
  /\ pcState = "New"
  /\ stateOut = <<>>
  /\ lastMsg = 0
  /\ doneChan = 0
  /\ ctrlcReg = FALSE
  /\ sigPending = FALSE
  /\ branch = "none"
  /\ closeCalls = 0
  /\ ch = [c \in Chans |-> NoChan]
  /\ b64Line = <<>>
  /\ wire = <<>>
  /\ sentIds = 0
  /\ lastId = 0

Init == InitProgram /\ answerSdp = SampleSdp

\* Any answer text up to the bound.
MainInit == InitProgram /\ answerSdp \in SdpTexts

Alive == exitCode = Running

\* The process ends with status code: the runtime is dropped, no task runs on.
Exit(code) == exitCode' = code

\* Faulty Try: the error of the call is dropped and main continues.
TryNoPropagate(name, ok) ==
  /\ Alive
  /\ pc = name
  /\ calls' = Append(calls, <<name, ok>>)
  /\ pc' = Succ(name)
  /\ UNCHANGED exitCode

\* A fallible library call awaited with `?`: Ok continues, Err leaves main.
Try(name, ok) ==
  /\ Alive
  /\ pc = name
  /\ calls' = Append(calls, <<name, ok>>)
  /\ IF ok THEN pc' = Succ(name) /\ UNCHANGED exitCode
           ELSE pc' = "end" /\ Exit(ExitErr)

\* Lines 22-63: clap parses the flags; --fullhelp prints the help and exits 0,
\* an unknown flag exits non-zero, --debug installs the logger.
ParseArgs(flag) ==
  /\ Alive
  /\ pc = "parse_args"
  /\ CASE flag = "fullhelp" -> pc' = "end" /\ Exit(ExitOk) /\ out' = Append(out, "help")
       [] flag = "unknown"  -> pc' = "end" /\ Exit(ExitErr) /\ UNCHANGED out
       [] OTHER             -> pc' = Succ(pc) /\ UNCHANGED <<exitCode, out>>
  /\ UNCHANGED <<calls, missed, pcState, stateOut, lastMsg, ch>>
  /\ UNCHANGED <<libVars, sigVars, termVars>>
  /\ UNCHANGED <<descVars, wireVars>>

\* Lines 68-98: register_default_codecs()?, register_default_interceptors()?,
\* new_peer_connection()?; line 100 creates the termination channel.
Setup(ok) ==
  /\ pc \in {"register_codecs", "register_interceptors", "new_peer_connection"}
  /\ Try(pc, ok)
  /\ UNCHANGED <<out, missed, pcState, stateOut, lastMsg, ch>>
  /\ UNCHANGED <<libVars, sigVars, termVars>>
  /\ UNCHANGED <<descVars, wireVars>>

\* Lines 104-118: the state handler is installed and the registration awaited.
RegisterStateHandler ==
  /\ Alive
  /\ pc = "on_peer_connection_state_change"
  /\ stateHandler' = TRUE
  /\ pc' = Succ(pc)
  /\ UNCHANGED <<exitCode, calls, out, dcHandler, missed, remoteDesc, localDesc,
                 localRead, pcState, stateOut, lastMsg, ch>>
  /\ UNCHANGED <<sigVars, termVars>>
  /\ UNCHANGED <<descVars, wireVars>>

\* Lines 121-160: the data-channel handler is installed and the registration awaited.
RegisterDataChannelHandler ==
  /\ Alive
  /\ pc = "on_data_channel"
  /\ dcHandler' = TRUE
  /\ pc' = Succ(pc)
  /\ UNCHANGED <<exitCode, calls, out, stateHandler, missed, remoteDesc, localDesc,
                 localRead, pcState, stateOut, lastMsg, ch>>
  /\ UNCHANGED <<sigVars, termVars>>
  /\ UNCHANGED <<descVars, wireVars>>

\* Lines 163-170: the embedded offer is applied.
SetRemoteDescription(ok) ==
  /\ pc = "set_remote_description"
  /\ Try(pc, ok)
  /\ remoteDesc' = ok
  /\ UNCHANGED <<out, stateHandler, dcHandler, missed, localDesc, localRead,
                 pcState, stateOut, lastMsg, ch>>
  /\ UNCHANGED <<sigVars, termVars>>
  /\ UNCHANGED <<descVars, wireVars>>

\* Faulty call: the error of create_answer is dropped and main continues.
CreateAnswerLenient(ok) ==
  /\ pc = "create_answer"
  /\ TryNoPropagate(pc, ok)
  /\ UNCHANGED <<out, missed, pcState, stateOut, lastMsg, ch>>
  /\ UNCHANGED <<libVars, sigVars, termVars>>
  /\ UNCHANGED <<descVars, wireVars>>

\* Line 173.
CreateAnswer(ok) ==
  /\ pc = "create_answer"
  /\ Try(pc, ok)
  /\ UNCHANGED <<out, missed, pcState, stateOut, lastMsg, ch>>
  /\ UNCHANGED <<libVars, sigVars, termVars>>
  /\ UNCHANGED <<descVars, wireVars>>

\* Line 176.
SetLocalDescription(ok) ==
  /\ pc = "set_local_description"
  /\ Try(pc, ok)
  /\ localDesc' = ok
  /\ UNCHANGED <<out, stateHandler, dcHandler, missed, remoteDesc, localRead,
                 pcState, stateOut, lastMsg, ch>>
  /\ UNCHANGED <<sigVars, termVars>>
  /\ UNCHANGED <<descVars, wireVars>>

\* Faulty add: the result of add_ice_candidate is dropped (no unwrap).
AddIceCandidateLenient(ok) ==
  /\ Alive
  /\ pc = "add_ice_candidate"
  /\ calls' = Append(calls, <<pc, ok>>)
  /\ pc' = Succ(pc)
  /\ UNCHANGED <<exitCode, out, missed, pcState, stateOut, lastMsg, ch>>
  /\ UNCHANGED <<libVars, sigVars, termVars>>
  /\ UNCHANGED <<descVars, wireVars>>

\* Lines 178-185: add_ice_candidate(..).await.unwrap(): Err panics.
AddIceCandidate(ok) ==
  /\ Alive
  /\ pc = "add_ice_candidate"
  /\ calls' = Append(calls, <<pc, ok>>)
  /\ IF ok THEN pc' = Succ(pc) /\ UNCHANGED exitCode
           ELSE pc' = "end" /\ Exit(ExitPanic)
  /\ UNCHANGED <<out, missed, pcState, stateOut, lastMsg, ch>>
  /\ UNCHANGED <<libVars, sigVars, termVars>>
  /\ UNCHANGED <<descVars, wireVars>>

\* ------------------------------------------------------ signaling text
\* Texts are sequences of bytes (the UTF-8 encoding; ASCII here).

\* Line 188: the description the library holds after
\* set_local_description(answer): the answer of create_answer.
local_desc == [type |-> "answer", sdp |-> answerSdp]

\* serde's name of an RTCSdpType: "answer", "offer".
TypeName(t) ==
  CASE t = "answer" -> <<97, 110, 115, 119, 101, 114>>
    [] t = "offer" -> <<111, 102, 102, 101, 114>>

\* JSON string escapes of '"', '\', LF and CR.
EscapeByte(b) ==
  CASE b = 34 -> <<92, 34>>
    [] b = 92 -> <<92, 92>>
    [] b = 10 -> <<92, 110>>
    [] b = 13 -> <<92, 114>>
    [] OTHER -> <<b>>

RECURSIVE Escape(_)
Escape(t) == IF t = <<>> THEN <<>> ELSE EscapeByte(Head(t)) \o Escape(Tail(t))

\* Line 189: serde_json::to_string(&local_desc):
\* {"type":"<type>","sdp":"<escaped sdp>"}
to_string(d) ==
  <<123, 34, 116, 121, 112, 101, 34, 58, 34>> \o TypeName(d.type)
    \o <<34, 44, 34, 115, 100, 112, 34, 58, 34>> \o Escape(d.sdp) \o <<34, 125>>

\* The standard base64 alphabet: A-Z a-z 0-9 + /
Alphabet ==
  [i \in 1..64 |->
     IF i <= 26 THEN 64 + i
     ELSE IF i <= 52 THEN 70 + i
     ELSE IF i <= 62 THEN i - 5
     ELSE IF i = 63 THEN 43 ELSE 47]

\* The padding character '='.
Pad == 61

\* signal::encode: standard base64 of the bytes, three bytes to four characters.
RECURSIVE encode(_)
encode(t) ==
  IF Len(t) = 0 THEN <<>>
  ELSE IF Len(t) = 1
    THEN <<Alphabet[(t[1] \div 4) + 1], Alphabet[(t[1] % 4) * 16 + 1], Pad, Pad>>
  ELSE IF Len(t) = 2
    THEN <<Alphabet[(t[1] \div 4) + 1],
           Alphabet[(t[1] % 4) * 16 + (t[2] \div 16) + 1],
           Alphabet[(t[2] % 16) * 4 + 1], Pad>>
  ELSE <<Alphabet[(t[1] \div 4) + 1],
         Alphabet[(t[1] % 4) * 16 + (t[2] \div 16) + 1],
         Alphabet[(t[2] % 16) * 4 + (t[3] \div 64) + 1],
         Alphabet[(t[3] % 64) + 1]>> \o encode(SubSeq(t, 4, Len(t)))

\* Value of a base64 character.
Sextet(c) == (CHOOSE i \in 1..64 : Alphabet[i] = c) - 1

\* signal::decode: four characters to three bytes, fewer where padded.
RECURSIVE decode(_)
decode(s) ==
  IF Len(s) < 4 THEN <<>>
  ELSE IF s[3] = Pad
    THEN <<Sextet(s[1]) * 4 + (Sextet(s[2]) \div 16)>>
  ELSE IF s[4] = Pad
    THEN <<Sextet(s[1]) * 4 + (Sextet(s[2]) \div 16),
           (Sextet(s[2]) % 16) * 16 + (Sextet(s[3]) \div 4)>>
  ELSE <<Sextet(s[1]) * 4 + (Sextet(s[2]) \div 16),
         (Sextet(s[2]) % 16) * 16 + (Sextet(s[3]) \div 4),
         (Sextet(s[3]) % 4) * 64 + Sextet(s[4])>> \o decode(SubSeq(s, 5, Len(s)))

\* Faulty line: the SDP text is encoded, not the JSON of the description.
b64SdpOnly(d) == encode(d.sdp)

\* Lines 189-190: the line printed for the description d.
b64(d) == encode(to_string(d))

\* Faulty read: an absent local description is treated as an error of main.
ReadLocalDescriptionStrict(desc, jsonOk) ==
  /\ Alive
  /\ pc = "local_description"
  /\ calls' = Append(calls, <<pc, desc = "some">>)
  /\ localRead' = desc
  /\ b64Line' = IF desc = "some" /\ jsonOk THEN b64(local_desc) ELSE b64Line
  /\ IF desc = "some" /\ jsonOk
       THEN /\ out' = Append(out, "b64")
            /\ pc' = Succ(pc)
            /\ UNCHANGED exitCode
       ELSE /\ out' = IF desc = "some" THEN out
                      ELSE Append(out, "generate local_description failed!")
            /\ pc' = "end"
            /\ Exit(ExitErr)
  /\ UNCHANGED <<stateHandler, dcHandler, missed, remoteDesc, localDesc, pcState,
                 stateOut, lastMsg, ch>>
  /\ UNCHANGED <<sigVars, termVars>>
  /\ UNCHANGED <<answerSdp, wireVars>>

\* Lines 188-194: Some(local_desc) prints the base64 line (to_string()? may
\* fail), None prints the failure notice.
ReadLocalDescription(desc, jsonOk) ==
  /\ Alive
  /\ pc = "local_description"
  /\ calls' = Append(calls, <<pc, desc = "some">>)
  /\ localRead' = desc
  /\ b64Line' = IF desc = "some" /\ jsonOk THEN b64(local_desc) ELSE b64Line
  /\ IF desc = "some"
       THEN IF jsonOk
              THEN /\ out' = Append(out, "b64")
                   /\ pc' = Succ(pc)
                   /\ UNCHANGED exitCode
              ELSE /\ pc' = "end"
                   /\ Exit(ExitErr)
                   /\ UNCHANGED out
       ELSE /\ out' = Append(out, "generate local_description failed!")
            /\ pc' = Succ(pc)
            /\ UNCHANGED exitCode
  /\ UNCHANGED <<stateHandler, dcHandler, missed, remoteDesc, localDesc, pcState,
                 stateOut, lastMsg, ch>>
  /\ UNCHANGED <<sigVars, termVars>>
  /\ UNCHANGED <<answerSdp, wireVars>>

\* Line 196.
PrintPress ==
  /\ Alive
  /\ pc = "press"
  /\ out' = Append(out, "Press ctrl-c to stop")
  /\ pc' = Succ(pc)
  /\ UNCHANGED <<exitCode, calls, missed, pcState, stateOut, lastMsg, ch>>
  /\ UNCHANGED <<libVars, sigVars, termVars>>
  /\ UNCHANGED <<descVars, wireVars>>

\* Faulty select: the SIGINT listener is not registered.
EnterSelectNoListener ==
  /\ Alive
  /\ pc = "select"
  /\ pc' = Succ(pc)
  /\ UNCHANGED <<exitCode, calls, out, missed, pcState, stateOut, lastMsg, ch>>
  /\ UNCHANGED <<libVars, sigVars, termVars>>
  /\ UNCHANGED <<descVars, wireVars>>

\* Line 197: select! polls done_rx.recv() and ctrl_c(); the first poll of
\* ctrl_c() registers the SIGINT listener.
EnterSelect ==
  /\ Alive
  /\ pc = "select"
  /\ ctrlcReg' = TRUE
  /\ pc' = Succ(pc)
  /\ UNCHANGED <<exitCode, calls, out, missed, pcState, stateOut, lastMsg, ch,
                 sigPending>>
  /\ UNCHANGED <<libVars, termVars>>
  /\ UNCHANGED <<descVars, wireVars>>

\* Faulty channel: the sender was dropped, recv() yields None at once.
ReadyBranchesSenderDropped ==
  {"done"} \cup (IF sigPending THEN {"interrupt"} ELSE {})

\* Branches of the select that are ready. done_rx.recv() is ready when a
\* message is queued; it never yields None, because done_tx is not captured by
\* the state handler (its only use, line 113, is commented out) and so lives
\* in main's scope until main returns.
ReadyBranches ==
  (IF doneChan > 0 THEN {"done"} ELSE {}) \cup
  (IF sigPending THEN {"interrupt"} ELSE {})

\* Faulty select: it sits in a loop, main stays at the wait after a branch.
SelectWakeLoops(b) ==
  /\ Alive
  /\ pc = "wait"
  /\ b \in ReadyBranches
  /\ branch' = b
  /\ IF b = "done"
       THEN /\ doneChan' = doneChan - 1
            /\ out' = Append(out, "received done signal!")
            /\ UNCHANGED sigPending
       ELSE /\ sigPending' = FALSE
            /\ out' = Append(out, "")
            /\ UNCHANGED doneChan
  /\ UNCHANGED <<pc, exitCode, calls, missed, pcState, stateOut, lastMsg, ch,
                 ctrlcReg, closeCalls>>
  /\ UNCHANGED libVars
  /\ UNCHANGED <<descVars, wireVars>>

\* Lines 198-203: one ready branch is taken and its line printed.
SelectWake(b) ==
  /\ Alive
  /\ pc = "wait"
  /\ b \in ReadyBranches
  /\ branch' = b
  /\ IF b = "done"
       THEN /\ doneChan' = doneChan - 1
            /\ out' = Append(out, "received done signal!")
            /\ UNCHANGED sigPending
       ELSE /\ sigPending' = FALSE
            /\ out' = Append(out, "")
            /\ UNCHANGED doneChan
  /\ pc' = Succ(pc)
  /\ UNCHANGED <<exitCode, calls, missed, pcState, stateOut, lastMsg, ch, ctrlcReg,
                 closeCalls>>
  /\ UNCHANGED libVars
  /\ UNCHANGED <<descVars, wireVars>>

\* Faulty handler: line 113 is active, try_send(()) on Failed.
HandlerDoneSendsOnFailed(s) == IF s = "Failed" THEN 1 ELSE 0

\* The state handler's use of the termination channel for state s
\* (line 113 is commented out: nothing is sent).
HandlerDoneSends(s) == 0

\* Lines 105-117: the state handler prints the state, and the notice on Failed.
StateHandlerRuns(s) ==
  /\ stateOut' = IF s = "Failed"
                   THEN <<s, "Peer Connection has gone to failed exiting">>
                   ELSE <<s>>
  /\ doneChan' = IF doneChan + HandlerDoneSends(s) > 1 THEN 1
                 ELSE doneChan + HandlerDoneSends(s)

\* Faulty close: it also aborts the send loops still running.
CloseCancelsLoops(ok) ==
  /\ Alive
  /\ pc = "close"
  /\ calls' = Append(calls, <<pc, ok>>)
  /\ closeCalls' = closeCalls + 1
  /\ pcState' = "Closed"
  /\ IF pcState # "Closed" /\ stateHandler
       THEN StateHandlerRuns("Closed")
       ELSE UNCHANGED <<stateOut, doneChan>>
  /\ ch' = [c \in Chans |->
              IF ch[c].known
                THEN [ch[c] EXCEPT !.ready = "closed",
                                   !.loop = IF @ = "none" THEN @ ELSE "ended"]
                ELSE ch[c]]
  /\ IF ok THEN pc' = Succ(pc) /\ UNCHANGED exitCode
           ELSE pc' = "end" /\ Exit(ExitErr)
  /\ UNCHANGED <<out, missed, lastMsg, branch>>
  /\ UNCHANGED <<libVars, sigVars>>
  /\ UNCHANGED <<descVars, wireVars>>

\* Line 206: close().await?; the library closes the transports and the data
\* channels and reports Closed to the state handler.
Close(ok) ==
  /\ Alive
  /\ pc = "close"
  /\ calls' = Append(calls, <<pc, ok>>)
  /\ closeCalls' = closeCalls + 1
  /\ pcState' = "Closed"
  /\ IF pcState # "Closed" /\ stateHandler
       THEN StateHandlerRuns("Closed")
       ELSE UNCHANGED <<stateOut, doneChan>>
  /\ ch' = [c \in Chans |->
              IF ch[c].known THEN [ch[c] EXCEPT !.ready = "closed"] ELSE ch[c]]
  /\ IF ok THEN pc' = Succ(pc) /\ UNCHANGED exitCode
           ELSE pc' = "end" /\ Exit(ExitErr)
  /\ UNCHANGED <<out, missed, lastMsg, branch>>
  /\ UNCHANGED <<libVars, sigVars>>
  /\ UNCHANGED <<descVars, wireVars>>

\* Line 208: Ok(()) leaves main; the process exits 0.
Return ==
  /\ Alive
  /\ pc = "return"
  /\ pc' = Succ(pc)
  /\ Exit(ExitOk)
  /\ UNCHANGED <<calls, out, missed, pcState, stateOut, lastMsg, ch>>
  /\ UNCHANGED <<libVars, sigVars, termVars>>
  /\ UNCHANGED <<descVars, wireVars>>

\* ------------------------------------------------------------ environment
\* The operating system delivers SIGINT: to tokio's listener once ctrl_c()
\* has been polled (line 201), otherwise by the default disposition, which
\* kills the process.
Sigint ==
  /\ Alive
  /\ IF ctrlcReg THEN sigPending' = TRUE /\ UNCHANGED exitCode
                 ELSE Exit(ExitSigint) /\ UNCHANGED sigPending
  /\ UNCHANGED <<pc, calls, out, missed, pcState, stateOut, lastMsg, ch, ctrlcReg>>
  /\ UNCHANGED <<libVars, termVars>>
  /\ UNCHANGED <<descVars, wireVars>>

\* Transitions of the library-owned peer-connection state machine.
PeerTransition(from, to) ==
  \/ from = "New" /\ to = "Connecting"
  \/ from = "Connecting" /\ to = "Connected"
  \/ from = "Disconnected" /\ to = "Connected"
  \/ from \notin {"Closed", "Disconnected"} /\ to = "Disconnected"
  \/ from \notin {"Closed", "Failed"} /\ to = "Failed"

\* Lines 105-117: the library reports a state change, once the transports
\* were started by the two descriptions; the handler, if installed, runs.
PeerStateChange(s) ==
  /\ Alive
  /\ remoteDesc /\ localDesc
  /\ PeerTransition(pcState, s)
  /\ pcState' = s
  /\ IF stateHandler
       THEN StateHandlerRuns(s) /\ UNCHANGED missed
       ELSE missed' = TRUE /\ UNCHANGED <<stateOut, doneChan>>
  /\ UNCHANGED <<ch, lastMsg, branch, closeCalls>>
  /\ UNCHANGED <<mainVars, libVars, sigVars>>
  /\ UNCHANGED <<descVars, wireVars>>

\* The next channel to arrive: channels are numbered in order of arrival.
NextChan == {c \in Chans : ~ch[c].known /\ \A d \in 1..(c - 1) : ch[d].known}

\* Lines 122-125: the remote peer created a data channel; the handler, if
\* installed, prints "New DataChannel" and returns the registering future.
NewDataChannel(c) ==
  /\ Alive
  /\ pcState = "Connected"
  /\ c \in NextChan
  /\ IF dcHandler
       THEN ch' = [ch EXCEPT ![c].known = TRUE] /\ UNCHANGED missed
       ELSE missed' = TRUE /\ UNCHANGED ch
  /\ UNCHANGED <<pcState, stateOut, lastMsg>>
  /\ UNCHANGED <<mainVars, libVars, sigVars, termVars>>
  /\ UNCHANGED <<descVars, wireVars>>

\* Faulty order: on_message is registered before on_open.
RegStepsSwapped == <<"on_message", "on_open">>

\* The registrations of the handler's future (lines 128-158) in program
\* order: d.on_open(..).await (132-150), then d.on_message(..).await (153-157).
RegSteps == <<"on_open", "on_message">>

\* Handler h of channel c is registered.
Registered(c, h) == \E k \in 1..ch[c].regs : RegSteps[k] = h

\* The future of lines 128-158 runs its next registration statement.
RegisterChannelHandler(c) ==
  /\ Alive
  /\ ch[c].known
  /\ ch[c].regs < Len(RegSteps)
  /\ ch' = [ch EXCEPT ![c].regs = @ + 1]
  /\ UNCHANGED <<missed, pcState, stateOut, lastMsg>>
  /\ UNCHANGED <<mainVars, libVars, sigVars, termVars>>
  /\ UNCHANGED <<descVars, wireVars>>

\* The channel's transport is established.
ChannelOpens(c) ==
  /\ Alive
  /\ pcState = "Connected"
  /\ ch[c].known
  /\ ch[c].ready = "connecting"
  /\ ch' = [ch EXCEPT ![c].ready = "open"]
  /\ UNCHANGED <<missed, pcState, stateOut, lastMsg>>
  /\ UNCHANGED <<mainVars, libVars, sigVars, termVars>>
  /\ UNCHANGED <<descVars, wireVars>>

\* Faulty loop: it sends first and sleeps afterwards.
LoopStartSending == "send"

\* Loop state after the on_open closure was called: line 133 printed the
\* notice, the returned future starts with the sleep of line 138.
LoopStart == "sleep"

\* Lines 132-138: the library calls the on_open handler, once, when the
\* channel is open and the handler is registered. The library runs each
\* callback on a task of its own, so this call is not ordered with the
\* delivery of messages on the channel.
OnOpen(c) ==
  /\ Alive
  /\ Registered(c, "on_open")
  /\ ch[c].ready # "connecting"
  /\ ~ch[c].opened
  /\ ch' = [ch EXCEPT ![c].opened = TRUE, ![c].loop = LoopStart]
  /\ UNCHANGED <<missed, pcState, stateOut, lastMsg>>
  /\ UNCHANGED <<mainVars, libVars, sigVars, termVars>>
  /\ UNCHANGED <<descVars, wireVars>>

\* Lines 141-144: the 5 s timer expires; the message is generated and
\* "Sending" is printed.
TimerExpires(c) ==
  /\ Alive
  /\ ch[c].loop = "sleep"
  /\ ch' = [ch EXCEPT ![c].loop = "send"]
  /\ UNCHANGED <<missed, pcState, stateOut, lastMsg>>
  /\ UNCHANGED <<mainVars, libVars, sigVars, termVars>>
  /\ UNCHANGED <<descVars, wireVars>>

\* Faulty loop condition: the result of the send is ignored.
LoopContinuesAlways(ok) == TRUE

\* Line 137: the loop condition, on the result of the last send.
LoopContinues(ok) == ok

\* Line 145: send_text(..).await; on a closed channel the send fails.
SendText(c, ok) ==
  /\ Alive
  /\ ch[c].loop = "send"
  /\ ch[c].ready # "open" => ~ok
  /\ ch' = [ch EXCEPT ![c].failed = @ \/ ~ok,
                      ![c].loop = IF LoopContinues(ok) THEN "sleep" ELSE "ended"]
  /\ UNCHANGED <<missed, pcState, stateOut, lastMsg>>
  /\ UNCHANGED <<mainVars, libVars, sigVars, termVars>>
  /\ UNCHANGED <<descVars, wireVars>>

\* Faulty handler: the decoding error ends the process (exit on Err).
OnMessageFatal(c, utf8, id) ==
  /\ Alive
  /\ Registered(c, "on_message")
  /\ ch[c].ready = "open"
  /\ ~ch[c].panicked
  /\ IF utf8
       THEN lastMsg' = c /\ lastId' = id /\ UNCHANGED <<ch, exitCode>>
       ELSE /\ ch' = [ch EXCEPT ![c].panicked = TRUE]
            /\ Exit(ExitPanic)
            /\ UNCHANGED <<lastMsg, lastId>>
  /\ UNCHANGED <<missed, pcState, stateOut>>
  /\ UNCHANGED <<pc, calls, out>>
  /\ UNCHANGED <<libVars, sigVars, termVars>>
  /\ UNCHANGED descVars

\* Faulty handler: the messages are handled by the task of the send loop,
\* once the loop has ended.
OnMessageAfterLoop(c, utf8, id) ==
  /\ Alive
  /\ Registered(c, "on_message")
  /\ ch[c].ready = "open"
  /\ ~ch[c].panicked
  /\ ch[c].loop = "ended"
  /\ IF utf8
       THEN lastMsg' = c /\ lastId' = id /\ UNCHANGED ch
       ELSE ch' = [ch EXCEPT ![c].panicked = TRUE] /\ UNCHANGED <<lastMsg, lastId>>
  /\ UNCHANGED <<missed, pcState, stateOut>>
  /\ UNCHANGED <<mainVars, libVars, sigVars, termVars>>
  /\ UNCHANGED descVars

\* Lines 153-156: the library calls the on_message handler of an open
\* channel with message id (0: a message whose place in the transport is not
\* followed). Valid UTF-8 is printed by the closure itself, before it returns
\* its future; on invalid UTF-8 the unwrap of line 154 panics in the library
\* task that called the handler, which ends that task (the channel's reader)
\* and prints nothing.
OnMessage(c, utf8, id) ==
  /\ Alive
  /\ Registered(c, "on_message")
  /\ ch[c].ready = "open"
  /\ ~ch[c].panicked
  /\ IF utf8
       THEN lastMsg' = c /\ lastId' = id /\ UNCHANGED ch
       ELSE ch' = [ch EXCEPT ![c].panicked = TRUE] /\ UNCHANGED <<lastMsg, lastId>>
  /\ UNCHANGED <<missed, pcState, stateOut>>
  /\ UNCHANGED <<mainVars, libVars, sigVars, termVars>>
  /\ UNCHANGED descVars

\* A message arrives on channel c and the channel's reader hands it to the
\* handler.
Deliver(c, utf8) ==
  /\ OnMessage(c, utf8, 0)
  /\ UNCHANGED <<wire, sentIds>>

\* The channel followed message by message.
Watched == 1

\* The remote peer sends the next message on the watched channel.
RemoteSends ==
  /\ Alive
  /\ ch[Watched].ready = "open"
  /\ sentIds < MaxMsgs
  /\ sentIds' = sentIds + 1
  /\ wire' = Append(wire, sentIds + 1)
  /\ UNCHANGED <<lastId, missed, pcState, stateOut, lastMsg, ch>>
  /\ UNCHANGED <<mainVars, libVars, sigVars, termVars>>
  /\ UNCHANGED descVars

\* The reader of the watched channel takes the oldest message in transit and
\* hands it to the handler.
DeliverHead(utf8) ==
  /\ wire # <<>>
  /\ OnMessage(Watched, utf8, Head(wire))
  /\ wire' = Tail(wire)
  /\ UNCHANGED sentIds

Next ==
  \/ \E flag \in {"none", "debug", "fullhelp", "unknown"} : ParseArgs(flag)
  \/ \E ok \in BOOLEAN : Setup(ok)
  \/ RegisterStateHandler
  \/ RegisterDataChannelHandler
  \/ \E ok \in BOOLEAN : SetRemoteDescription(ok)
  \/ \E ok \in BOOLEAN : CreateAnswer(ok)
  \/ \E ok \in BOOLEAN : SetLocalDescription(ok)
  \/ \E ok \in BOOLEAN : AddIceCandidate(ok)
  \/ \E desc \in {"some", "none"}, jsonOk \in BOOLEAN : ReadLocalDescription(desc, jsonOk)
  \/ PrintPress
  \/ EnterSelect
  \/ \E b \in {"done", "interrupt"} : SelectWake(b)
  \/ \E ok \in BOOLEAN : Close(ok)
  \/ Return
  \/ Sigint
  \/ \E s \in PeerStates : PeerStateChange(s)
  \/ \E c \in Chans : NewDataChannel(c)
  \/ \E c \in Chans : RegisterChannelHandler(c)
  \/ \E c \in Chans : ChannelOpens(c)
  \/ \E c \in Chans : OnOpen(c)
  \/ \E c \in Chans : TimerExpires(c)
  \/ \E c \in Chans, ok \in BOOLEAN : SendText(c, ok)
  \/ \E c \in Chans, utf8 \in BOOLEAN : Deliver(c, utf8)

Spec == Init /\ [][Next]_vars

\* The main task alone, the library's callbacks left out, for any text of the
\* answer.
MainNext ==
  \/ \E flag \in {"none", "debug", "fullhelp", "unknown"} : ParseArgs(flag)
  \/ \E ok \in BOOLEAN : Setup(ok)
  \/ RegisterStateHandler
  \/ RegisterDataChannelHandler
  \/ \E ok \in BOOLEAN : SetRemoteDescription(ok)
  \/ \E ok \in BOOLEAN : CreateAnswer(ok)
  \/ \E ok \in BOOLEAN : SetLocalDescription(ok)
  \/ \E ok \in BOOLEAN : AddIceCandidate(ok)
  \/ \E desc \in {"some", "none"}, jsonOk \in BOOLEAN : ReadLocalDescription(desc, jsonOk)
  \/ PrintPress
  \/ EnterSelect
  \/ \E b \in {"done", "interrupt"} : SelectWake(b)
  \/ \E ok \in BOOLEAN : Close(ok)
  \/ Return
  \/ Sigint

MainSpec == MainInit /\ [][MainNext]_vars

\* The program with one data channel, the watched one, whose messages are
\* followed from the remote peer's send to the handler.
ChanNext ==
  \/ \E flag \in {"none", "debug", "fullhelp", "unknown"} : ParseArgs(flag)
  \/ \E ok \in BOOLEAN : Setup(ok)
  \/ RegisterStateHandler
  \/ RegisterDataChannelHandler
  \/ \E ok \in BOOLEAN : SetRemoteDescription(ok)
  \/ \E ok \in BOOLEAN : CreateAnswer(ok)
  \/ \E ok \in BOOLEAN : SetLocalDescription(ok)
  \/ \E ok \in BOOLEAN : AddIceCandidate(ok)
  \/ \E desc \in {"some", "none"}, jsonOk \in BOOLEAN : ReadLocalDescription(desc, jsonOk)
  \/ PrintPress
  \/ EnterSelect
  \/ \E b \in {"done", "interrupt"} : SelectWake(b)
  \/ \E ok \in BOOLEAN : Close(ok)
  \/ Return
  \/ Sigint
  \/ \E s \in PeerStates : PeerStateChange(s)
  \/ NewDataChannel(Watched)
  \/ RegisterChannelHandler(Watched)
  \/ ChannelOpens(Watched)
  \/ OnOpen(Watched)
  \/ TimerExpires(Watched)
  \/ \E ok \in BOOLEAN : SendText(Watched, ok)
  \/ RemoteSends
  \/ \E utf8 \in BOOLEAN : DeliverHead(utf8)

ChanSpec == Init /\ [][ChanNext]_vars

\* Steps of the main task from the termination wait on. The runtime drives
\* the main task (block_on) whenever it can proceed: a ready select branch is
\* taken, close() is awaited to completion, main returns.
MainStep ==
  \/ \E b \in {"done", "interrupt"} : SelectWake(b)
  \/ \E ok \in BOOLEAN : Close(ok)
  \/ Return

FairSpec == Spec /\ WF_vars(MainStep)

\* ===================================================================
\* Properties
\* ===================================================================
\* Positions in calls of the calls of library function name.
CallIdx(name) == {i \in 1..Len(calls) : calls[i][1] = name}

\* Call i of main comes after a successful call of name.
After(i, name) == \E j \in 1..(i - 1) : calls[j] = <<name, TRUE>>

Printed(line) == \E i \in 1..Len(out) : out[i] = line

\* C1: set_remote_description is called and returns Ok before create_answer
\* and before set_local_description are called; main never stands at
\* create_answer or set_local_description without the remote description set.
C1_RemoteBeforeLocal ==
  /\ \A i \in CallIdx("create_answer") \cup CallIdx("set_local_description") :
       After(i, "set_remote_description")
  /\ pc \in {"create_answer", "set_local_description"} => remoteDesc
  /\ localDesc => remoteDesc

C1_Witness == CallIdx("set_local_description") # {} /\ localDesc

\* C2: every call of add_ice_candidate comes after set_remote_description
\* returned Ok; no candidate is added while the remote description is unset.
C2_IceAfterRemote ==
  /\ \A i \in CallIdx("add_ice_candidate") : After(i, "set_remote_description")
  /\ pc = "add_ice_candidate" => remoteDesc

C2_Witness == \E i \in CallIdx("add_ice_candidate") : calls[i][2]

\* C3: local_description() is called only after set_local_description
\* returned Ok.
C3_ReadAfterSetLocal ==
  /\ \A i \in CallIdx("local_description") : After(i, "set_local_description")
  /\ pc = "local_description" => localDesc
  /\ localRead # "unread" => localDesc

C3_Witness == localRead = "some" /\ Printed("b64")

\* C4: both handlers are installed before any session description is set,
\* and no state change or data-channel event finds its handler missing.
C4_WiredBeforeDescriptions ==
  /\ (CallIdx("set_remote_description") \cup CallIdx("set_local_description")) # {}
       => stateHandler /\ dcHandler
  /\ pc \in {"set_remote_description", "set_local_description"}
       => stateHandler /\ dcHandler
  /\ ~missed

C4_Witness == remoteDesc /\ pcState = "Connected" /\ ch[1].known /\ ~missed

\* C5: a state change reported to the state handler (Failed included) leaves
\* the termination channel, close() and the main task's progress untouched.
C5_FailedDoesNotTerminate ==
  [][(pcState' # pcState /\ pcState' # "Closed")
       => /\ stateOut' = IF pcState' = "Failed"
                            THEN <<"Failed", "Peer Connection has gone to failed exiting">>
                            ELSE <<pcState'>>
          /\ doneChan' = doneChan
          /\ closeCalls' = closeCalls
          /\ branch' = branch
          /\ pc' = pc
          /\ exitCode' = exitCode
          /\ calls' = calls
          /\ out' = out]_vars

C5_Witness == pcState = "Failed" /\ Len(stateOut) = 2 /\ Alive /\ pc = "wait" /\ doneChan = 0

\* A SIGINT reached the process: it killed it, or it reached the listener.
InterruptDelivered == exitCode = ExitSigint \/ sigPending \/ branch = "interrupt"

LastCall == calls[Len(calls)]

\* C6 as stated: after the interrupt branch was taken the process ends only
\* with close() called and with exit code 0.
C6_ExitsZeroAfterInterrupt ==
  (branch = "interrupt" /\ exitCode # Running) => (closeCalls = 1 /\ exitCode = ExitOk)

\* Safety part of C6 amended: after the interrupt branch main is at close(),
\* then past exactly one call of it, and the exit code is 0 exactly when that
\* call returned Ok.
C6_Safety ==
  branch = "interrupt" =>
    /\ pc \in {"close", "return", "end"}
    /\ pc = "close" => closeCalls = 0 /\ Alive
    /\ pc \in {"return", "end"} => closeCalls = 1 /\ LastCall[1] = "close"
    /\ pc = "return" => LastCall[2]
    /\ exitCode # Running =>
         exitCode = (IF LastCall = <<"close", TRUE>> THEN ExitOk ELSE ExitErr)

\* C6 amended: an interrupt that arrives while main is at the termination
\* wait is followed by one call of close(), awaited, and then by the exit:
\* with code 0 when close() returned Ok, with a non-zero code when it
\* returned Err; whatever the number of data channels that opened.
C6_InterruptClosesThenExits ==
  /\ []C6_Safety
  /\ (pc = "wait" /\ sigPending /\ Alive) ~> (exitCode # Running /\ closeCalls = 1)

C6_Witness ==
  /\ branch = "interrupt" /\ exitCode = ExitOk /\ closeCalls = 1
  /\ \A c \in Chans : ~ch[c].opened

\* C7 as stated: whenever a SIGINT was delivered, at any point of the run,
\* close() is called before the process ends.
C7_AnyInterruptCloses ==
  (exitCode # Running /\ InterruptDelivered) => closeCalls >= 1

\* C7 amended: a SIGINT delivered once the termination wait was entered (the
\* listener is registered from then on) is followed by close() before the
\* process ends; a SIGINT delivered earlier kills the process without close().
C7_InterruptAtWaitCloses ==
  /\ pc \in {"wait", "close", "return"} => ctrlcReg
  /\ ctrlcReg => pc \in {"wait", "close", "return", "end"}
  /\ (exitCode # Running /\ (sigPending \/ branch = "interrupt")) => closeCalls = 1
  /\ exitCode = ExitSigint => ~ctrlcReg /\ closeCalls = 0

C7_Witness ==
  /\ branch = "interrupt" /\ sigPending /\ exitCode \in {ExitOk, ExitErr}
  /\ closeCalls = 1 /\ ch[1].opened

\* C8: with the local description absent after set_local_description
\* succeeded, the failure notice is printed, no base64 line is, and main goes
\* on to the termination wait: it ends only through the select and close().
C8_AbsentLocalDescription ==
  localRead = "none" =>
    /\ localDesc
    /\ Printed("generate local_description failed!")
    /\ ~Printed("b64")
    /\ pc \in {"press", "select", "wait", "close", "return", "end"}
    /\ pc \in {"press", "select", "wait"} => closeCalls = 0 /\ exitCode \in {Running, ExitSigint}
    /\ closeCalls > 0 => branch # "none" /\ Printed("Press ctrl-c to stop")
    /\ exitCode \in {ExitOk, ExitErr} => closeCalls = 1

C8_Witness == localRead = "none" /\ pc = "wait" /\ Alive /\ closeCalls = 0

\* C9: once send_text failed on channel c the send loop of c has ended and
\* stays ended (no further timer, no further send); the failing send changes
\* nothing but the loop of c: not the main task, not the handlers of c, not
\* the other channels.
C9_LoopEndsOnFirstFailure ==
  [][\A c \in Chans :
       /\ ch[c].failed => ch[c].loop = "ended" /\ ch'[c].loop = "ended"
       /\ (~ch[c].failed /\ ch'[c].failed) =>
            /\ ch[c].loop = "send" /\ ch'[c].loop = "ended"
            /\ ch'[c] = [ch[c] EXCEPT !.loop = "ended", !.failed = TRUE]
            /\ \A d \in Chans \ {c} : ch'[d] = ch[d]
            /\ pc' = pc /\ exitCode' = exitCode /\ calls' = calls /\ out' = out
            /\ doneChan' = doneChan /\ closeCalls' = closeCalls /\ pcState' = pcState]_vars

C9_Witness ==
  /\ Alive /\ ch[1].failed /\ ch[1].loop = "ended" /\ ch[1].ready = "open"
  /\ lastMsg = 1 /\ ch[2].loop = "sleep" /\ ~ch[2].failed

\* C10 as stated: no message line of a channel is printed before the open
\* notice of that channel.
C10_OpenNoticeBeforeMessages == \A c \in Chans : lastMsg = c => ch[c].opened

\* C10 amended: the on_open handler of a channel is registered before any
\* message of the channel is observed; the open notice itself may follow a
\* message line when the library delivers the message before it has run the
\* on_open handler.
C10_OpenRegisteredBeforeMessages ==
  \A c \in Chans :
    /\ lastMsg = c => Registered(c, "on_open")
    /\ Registered(c, "on_message") => Registered(c, "on_open")
    /\ ch[c].opened => Registered(c, "on_open")

C10_Witness == lastMsg = 1 /\ ~ch[1].opened /\ Registered(1, "on_open")

NegotiationCalls ==
  {"set_remote_description", "create_answer", "set_local_description",
   "add_ice_candidate"}

\* C11: a negotiation call that fails is the last call of main; the process
\* has ended with a non-zero status, no base64 line and no "Press ctrl-c to
\* stop" was printed, and the termination wait was never entered.
C11_NegotiationErrorsFatal ==
  \A i \in 1..Len(calls) :
    (calls[i][1] \in NegotiationCalls /\ ~calls[i][2]) =>
      /\ i = Len(calls)
      /\ pc = "end"
      /\ exitCode \in {ExitErr, ExitPanic}
      /\ exitCode = ExitPanic <=> calls[i][1] = "add_ice_candidate"
      /\ ~Printed("b64")
      /\ ~Printed("Press ctrl-c to stop")
      /\ localRead = "unread"
      /\ ~ctrlcReg /\ branch = "none" /\ closeCalls = 0

C11_Witness ==
  /\ exitCode = ExitPanic /\ localDesc /\ remoteDesc
  /\ LastCall = <<"add_ice_candidate", FALSE>>

\* C12 as stated: a run in which a non-UTF-8 message reached the on_message
\* handler does not end with exit code 0.
C12_DecodeErrorIsFatal ==
  (\E c \in Chans : ch[c].panicked) => exitCode # ExitOk

\* C12 amended: for a non-UTF-8 message no "Message from DataChannel" line is
\* printed; the panic ends only the task that ran the handler: the process
\* keeps running, the main task, the send loops and the other channels are
\* untouched, and the exit code is decided by main alone.
C12_DecodeErrorKillsHandlerOnly ==
  [][\A c \in Chans :
       (~ch[c].panicked /\ ch'[c].panicked) =>
         /\ lastMsg' = lastMsg
         /\ exitCode = Running /\ exitCode' = Running
         /\ pc' = pc /\ calls' = calls /\ out' = out
         /\ doneChan' = doneChan /\ closeCalls' = closeCalls
         /\ ch'[c] = [ch[c] EXCEPT !.panicked = TRUE]
         /\ \A d \in Chans \ {c} : ch'[d] = ch[d]]_vars

C12_Witness ==
  /\ ch[1].panicked /\ exitCode = ExitOk /\ branch = "interrupt"
  /\ ch[1].loop = "sleep"

\* Number of lines printed by the two branches of the select.
BranchLines ==
  Cardinality({i \in 1..Len(out) : out[i] \in {"received done signal!", ""}})

\* C13: the select is single-shot: at most one branch is taken and one branch
\* line printed; main is past the select exactly when a branch was taken, the
\* line printed is that of the branch taken, and close() is called at most
\* once, only after the branch.
C13_SelectSingleShot ==
  /\ BranchLines <= 1
  /\ closeCalls <= 1
  /\ branch = "none" <=> BranchLines = 0
  /\ branch = "done" => Printed("received done signal!")
  /\ branch = "interrupt" => Printed("")
  /\ branch # "none" => out[Len(out)] \in {"received done signal!", ""}
  /\ branch # "none" <=> (pc \in {"close", "return"} \/ closeCalls = 1)
  /\ pc \in {"return"} => closeCalls = 1
  /\ closeCalls = 1 => LastCall[1] = "close"

C13_Witness ==
  /\ branch = "interrupt" /\ BranchLines = 1 /\ closeCalls = 1
  /\ sigPending /\ pc = "return" /\ Alive

\* ---- reading a description back from its JSON text
StartsWith(t, p) == Len(t) >= Len(p) /\ SubSeq(t, 1, Len(p)) = p

Drop(t, n) == SubSeq(t, n + 1, Len(t))

Unescape(b) == CASE b = 110 -> 10 [] b = 114 -> 13 [] OTHER -> b

\* The JSON string whose opening quote was just read: its value and the text
\* after its closing quote.
RECURSIVE ReadString(_, _)
ReadString(t, acc) ==
  IF t = <<>> THEN [ok |-> FALSE, val |-> acc, rest |-> <<>>]
  ELSE IF Head(t) = 34 THEN [ok |-> TRUE, val |-> acc, rest |-> Tail(t)]
  ELSE IF Head(t) = 92
    THEN IF Len(t) < 2 THEN [ok |-> FALSE, val |-> acc, rest |-> <<>>]
         ELSE ReadString(Drop(t, 2), Append(acc, Unescape(t[2])))
  ELSE ReadString(Tail(t), Append(acc, Head(t)))

NoDesc == [type |-> <<>>, sdp |-> <<>>]

\* The object {"type": .., "sdp": ..} a JSON text denotes, NoDesc if it is not
\* of that form.
from_str(t) ==
  IF ~StartsWith(t, <<123, 34, 116, 121, 112, 101, 34, 58, 34>>) THEN NoDesc
  ELSE LET ty == ReadString(Drop(t, 9), <<>>) IN
    IF ~ty.ok \/ ~StartsWith(ty.rest, <<44, 34, 115, 100, 112, 34, 58, 34>>)
      THEN NoDesc
    ELSE LET sd == ReadString(Drop(ty.rest, 8), <<>>) IN
      IF ~sd.ok \/ sd.rest # <<125>> THEN NoDesc
      ELSE [type |-> ty.val, sdp |-> sd.val]

B64Lines == {i \in 1..Len(out) : out[i] = "b64"}

\* C14: at most one base64 line is printed; it is printed after
\* set_local_description and add_ice_candidate returned Ok and before "Press
\* ctrl-c to stop"; decoded as standard base64 it is the JSON serialization of
\* the local description read, an object with the fields type and sdp whose
\* type is "answer" and whose sdp is the text of the answer.
C14_Base64LineIsTheAnswer ==
  /\ Cardinality(B64Lines) <= 1
  /\ B64Lines = {} <=> b64Line = <<>>
  /\ \A i \in B64Lines :
       /\ \E j \in CallIdx("set_local_description") : calls[j][2]
       /\ \E j \in CallIdx("add_ice_candidate") : calls[j][2]
       /\ localRead = "some"
       /\ \A k \in 1..Len(out) : out[k] = "Press ctrl-c to stop" => i < k
       /\ Len(b64Line) % 4 = 0
       /\ \A k \in 1..Len(b64Line) : b64Line[k] \in {Alphabet[n] : n \in 1..64} \cup {Pad}
       /\ decode(b64Line) = to_string(local_desc)
       /\ from_str(decode(b64Line)) = [type |-> TypeName("answer"), sdp |-> answerSdp]
  /\ Printed("Press ctrl-c to stop") =>
       \/ Cardinality(B64Lines) = 1
       \/ Printed("generate local_description failed!")

C14_Witness ==
  /\ Printed("b64") /\ Printed("Press ctrl-c to stop")
  /\ Len(answerSdp) = MaxSdpLen /\ answerSdp[1] = 13 /\ answerSdp[2] \in {34, 92}
  /\ b64Line # <<>>

\* C15: in the send loop of a channel every send attempt follows a timer
\* expiry of its own: the loop starts asleep when the channel opens, a send
\* attempt begins only from the sleep, by the timer expiring, and a send
\* attempt is followed by the next sleep or by the end of the loop, never by
\* another send; the sleep ends only by the timer expiring into a send.
C15_SleepBeforeEverySend ==
  [][\A c \in Chans :
       /\ (~ch[c].opened /\ ch'[c].opened) =>
            ch[c].loop = "none" /\ ch'[c].loop = "sleep"
       /\ (ch[c].loop = "none" /\ ch'[c].loop # "none") => ch'[c].loop = "sleep"
       /\ (ch[c].loop # "send" /\ ch'[c].loop = "send") => ch[c].loop = "sleep"
       /\ (ch[c].loop = "sleep" /\ ch'[c].loop # "sleep") => ch'[c].loop = "send"
       /\ (ch[c].loop = "send" /\ ch'[c].loop # "send") =>
            ch'[c].loop \in {"sleep", "ended"}
       /\ ch'[c].loop = "send" => ch[c].loop \in {"sleep", "send"}]_vars

C15_Witness ==
  /\ Alive /\ ch[1].opened /\ ch[1].loop = "send" /\ ch[1].ready = "open"
  /\ ch[2].opened /\ ch[2].loop = "sleep"

\* C16 as stated: once close() was called every send loop terminates; at the
\* end of a run in which close() was called no send loop is still running.
C16_LoopsEndAfterClose ==
  (pc = "end" /\ closeCalls = 1) =>
    \A c \in Chans : ch[c].loop \in {"none", "ended"}

\* C16 amended: close() closes every channel and leaves the send loops as
\* they are; from then on a loop that gets to run makes one send attempt after
\* its timer expires, the attempt fails and the loop ends; a loop whose timer
\* has not expired when the process ends is dropped as it is.
C16_LoopsOutliveClose ==
  [][\A c \in Chans :
       /\ closeCalls' # closeCalls =>
            /\ ch'[c].loop = ch[c].loop
            /\ ch[c].known => ch'[c].ready = "closed"
       /\ closeCalls = 1 =>
            /\ ch[c].known => ch[c].ready = "closed"
            /\ (ch[c].loop = "sleep" /\ ch'[c].loop # "sleep") => ch'[c].loop = "send"
            /\ (ch[c].loop = "send" /\ ch'[c].loop # "send") =>
                 ch'[c].loop = "ended" /\ ch'[c].failed
            /\ ch[c].loop = "ended" => ch'[c].loop = "ended"
       /\ exitCode # Running => ch'[c] = ch[c]]_vars

C16_Witness ==
  /\ closeCalls = 1 /\ exitCode = ExitOk
  /\ ch[1].loop = "ended" /\ ch[1].failed /\ ch[1].ready = "closed"
  /\ ch[2].loop = "sleep" /\ ch[2].ready = "closed"

\* C17: the termination channel never holds a message and its receive branch
\* is never ready: "received done signal!" is never printed, and main is past
\* the termination wait only by the interrupt branch.
C17_DoneBranchUnreachable ==
  /\ doneChan = 0
  /\ "done" \notin ReadyBranches
  /\ branch # "done"
  /\ ~Printed("received done signal!")
  /\ (pc \in {"close", "return"} \/ closeCalls > 0) =>
       branch = "interrupt" /\ Printed("") /\ ctrlcReg

C17_Witness ==
  /\ pc = "close" /\ Alive /\ branch = "interrupt"
  /\ pcState = "Failed" /\ Len(stateOut) = 2

\* C18: when close() has been called the four negotiation calls have returned
\* Ok, "Press ctrl-c to stop" was printed and a branch of the termination wait
\* was taken; a run that ends on a failed set-up or negotiation call, on a
\* serialization error or by the signal's default disposition ends without
\* close() having been called.
C18_CloseOnlyAfterWait ==
  /\ closeCalls > 0 =>
       /\ \A n \in NegotiationCalls : \E i \in CallIdx(n) : calls[i][2]
       /\ \A i \in 1..Len(calls) :
            calls[i][1] \notin {"local_description", "close"} => calls[i][2]
       /\ Printed("Press ctrl-c to stop")
       /\ ctrlcReg /\ branch # "none"
       /\ CallIdx("close") = {Len(calls)}
  /\ closeCalls = 0 <=> CallIdx("close") = {}
  /\ (\E i \in 1..Len(calls) :
        calls[i][1] \in (NegotiationCalls \cup
                           {"register_codecs", "register_interceptors",
                            "new_peer_connection"}) /\ ~calls[i][2]) =>
       closeCalls = 0 /\ exitCode \in {ExitErr, ExitPanic}
  /\ exitCode = ExitSigint => closeCalls = 0
  /\ (exitCode # Running /\ ~Printed("Press ctrl-c to stop")) => closeCalls = 0

C18_Witness ==
  /\ closeCalls = 1 /\ exitCode = ExitErr
  /\ \A n \in NegotiationCalls : \E i \in CallIdx(n) : calls[i][2]

\* The send loop of channel c is running.
LoopRuns(c) == ch[c].loop \in {"sleep", "send"}

\* C19: the send loop of a channel ends only by a failed send, and while it
\* sleeps or sends the oldest message in transit on the channel can be handed
\* to the on_message handler and printed; the messages of the channel are
\* printed in the order in which they were sent, each at the moment it is
\* taken from the transport.
C19_LoopDoesNotBlockMessages ==
  /\ [](( /\ Alive
          /\ LoopRuns(Watched)
          /\ Registered(Watched, "on_message")
          /\ ch[Watched].ready = "open" /\ ~ch[Watched].panicked
          /\ wire # <<>> ) => ENABLED DeliverHead(TRUE))
  /\ [][/\ (LoopRuns(Watched) /\ ~LoopRuns(Watched)') =>
             /\ ch[Watched].loop = "send" /\ ch'[Watched].loop = "ended"
             /\ ~ch[Watched].failed /\ ch'[Watched].failed
        /\ lastId' # lastId =>
             /\ lastId' > lastId
             /\ wire # <<>> /\ lastId' = Head(wire) /\ wire' = Tail(wire)
             /\ lastMsg' = Watched
             /\ ch'[Watched].loop = ch[Watched].loop]_vars

C19_Witness ==
  /\ Alive /\ lastId = MaxMsgs /\ wire = <<>>
  /\ ch[Watched].loop = "sleep" /\ ~ch[Watched].failed /\ ch[Watched].opened
====
